---- MODULE Spec2Model ----
(***************************************************************************)
(* tiny_calc: a line-oriented calculator.  Each line read by main is       *)
(* tokenized, parsed by a recursive-descent parser working through a       *)
(* cursor, and evaluated against an environment that lives as long as the  *)
(* process.                                                                *)
(*                                                                         *)
(* Strings are sequences of characters.  A character is the one-character  *)
(* string that holds it where a TLA+ string can spell it in printable      *)
(* ASCII or with one of the escapes \t \n \f \r, and the name of its code  *)
(* point, as in "U+00A0", otherwise.  The parser cursor n is 0-based as in *)
(* the source, so the token under the cursor is tokens[n + 1] here and the *)
(* one Parser::last reads is tokens[n].                                    *)
(***************************************************************************)
EXTENDS Integers, Sequences, FiniteSets, TLC

VARIABLES
    overflow_checks,  \* build profile: TRUE when i32 overflow panics (debug), FALSE when it wraps
    env,              \* Environment.vars: name -> i32
    pc,               \* position of main: "prompt", "parsing", "exited", "aborted"
    raw_calc,         \* the line read last
    tokens,           \* Parser.tokens
    n,                \* Parser.n
    stack,            \* call stack of the parser, innermost frame last
    ret,              \* value returned by the parser call that returned last
    parsed,           \* the expression handed to evaluate last
    printed,          \* what main printed last for a line: an error or the value
    panic,            \* message of the panic that aborted the process, or "none"
    lines             \* number of lines read so far

vars == <<overflow_checks, env, pc, raw_calc, tokens, n, stack, ret, parsed,
          printed, panic, lines>>

(***************************************************************************)
(* Bounds of the model.                                                    *)
(***************************************************************************)
MaxLen == 4       \* longest line of the lexer specification, in characters
MaxTokens == 4    \* longest token sequence of the parser specification
MaxOps == 2       \* most operator nodes in a tree of the evaluator specification
MaxLines == 2     \* most lines read in one run

(***************************************************************************)
(* i32 arithmetic.  TLC's own integers are 32 bits wide, so every operator *)
(* below decides overflow before it computes.                              *)
(***************************************************************************)
I32Max == 2147483647
I32Min == -2147483647 - 1

AddOverflows(a, b) ==
    \/ a > 0 /\ b > 0 /\ a > I32Max - b
    \/ a < 0 /\ b < 0 /\ a < I32Min - b

\* a + b modulo 2^32, read as a signed value
WrappingAdd(a, b) ==
    IF ~AddOverflows(a, b) THEN a + b
    ELSE IF a > 0 THEN (a + I32Min) + (b + I32Min)
    ELSE (a - I32Min) + (b - I32Min)

\* -a modulo 2^32
WrappingNeg(a) == IF a = I32Min THEN I32Min ELSE 0 - a

SubOverflows(a, b) ==
    \/ a >= 0 /\ b < 0 /\ a > I32Max + b
    \/ a < 0 /\ b > 0 /\ a < I32Min + b

WrappingSub(a, b) ==
    IF ~SubOverflows(a, b) THEN a - b
    ELSE WrappingAdd(a, WrappingNeg(b))

Abs(a) == IF a < 0 THEN 0 - a ELSE a

\* the magnitudes multiply to exactly 2^31, the one product beyond I32Max that
\* still fits when it is negative
IsTwoPow31(x, y) == (I32Max \div y) + 1 = x /\ I32Max % y = y - 1

MulOverflows(a, b) ==
    IF a = 0 \/ b = 0 THEN FALSE
    ELSE IF a = I32Min THEN b # 1
    ELSE IF b = I32Min THEN a # 1
    ELSE IF (a > 0) = (b > 0) THEN Abs(a) > I32Max \div Abs(b)
    ELSE Abs(a) > I32Max \div Abs(b) /\ ~IsTwoPow31(Abs(a), Abs(b))

\* x * y modulo 2^16 for 16-bit x, y, through 8-bit halves of y
Mul16Low(x, y) == (x * (y % 256) + ((x * (y \div 256)) % 256) * 256) % 65536

\* bits 16..31 of x * y for 16-bit x, y
Mul16High(x, y) ==
    LET p1 == x * (y \div 256)
        t == (p1 % 256) * 256 + x * (y % 256)
    IN (p1 \div 256) + (t \div 65536)

\* a * b modulo 2^32, read as a signed value, through 16-bit halves
WrappingMul(a, b) ==
    LET ah == (a \div 65536) % 65536
        al == a % 65536
        bh == (b \div 65536) % 65536
        bl == b % 65536
        lo == Mul16Low(al, bl)
        hi == (Mul16High(al, bl) + Mul16Low(ah, bl) + Mul16Low(al, bh)) % 65536
    IN IF hi >= 32768 THEN (hi - 65536) * 65536 + lo ELSE hi * 65536 + lo

(***************************************************************************)
(* Results.  Ok(v) and Err(e) are the two shapes of Result<T>; the only    *)
(* Error variant is SyntaxError, holding a message.                        *)
(***************************************************************************)
Ok(v) == [ok |-> TRUE, v |-> v]
Err(e) == [ok |-> FALSE, e |-> e]
SyntaxError(msg) == [error |-> "SyntaxError", msg |-> msg]

(***************************************************************************)
(* Characters.                                                             *)
(***************************************************************************)
\* char::is_whitespace: the 25 code points of the Unicode property White_Space
Whitespace ==
    {"\t", "\n", "U+000B", "\f", "\r", " ", "U+0085", "U+00A0", "U+1680",
     "U+2000", "U+2001", "U+2002", "U+2003", "U+2004", "U+2005", "U+2006",
     "U+2007", "U+2008", "U+2009", "U+200A", "U+2028", "U+2029", "U+202F",
     "U+205F", "U+3000"}
AsciiDigit == {"0", "1", "2", "3", "4", "5", "6", "7", "8", "9"}
AsciiAlphabetic ==
    {"a", "b", "c", "d", "e", "f", "g", "h", "i", "j", "k", "l", "m",
     "n", "o", "p", "q", "r", "s", "t", "u", "v", "w", "x", "y", "z",
     "A", "B", "C", "D", "E", "F", "G", "H", "I", "J", "K", "L", "M",
     "N", "O", "P", "Q", "R", "S", "T", "U", "V", "W", "X", "Y", "Z"}

is_whitespace(c) == c \in Whitespace
is_ascii_digit(c) == c \in AsciiDigit
is_ascii_alphabetic(c) == c \in AsciiAlphabetic

(***************************************************************************)
(* Lexer.                                                                  *)
(***************************************************************************)
TokenType == {"Num", "Name", "Plus", "Minus", "Times", "Lparen", "Rparen", "Assign"}

Token(token_type, val) == [token_type |-> token_type, val |-> val]

RECURSIVE DigitRunEnd(_, _)
\* the inner while loop of the digit branch: the first index at or after n
\* that holds no ASCII digit
DigitRunEnd(source_chars, n0) ==
    IF n0 < Len(source_chars) /\ is_ascii_digit(source_chars[n0 + 1])
    THEN DigitRunEnd(source_chars, n0 + 1)
    ELSE n0

RECURSIVE AlphaRunEnd(_, _)
\* the inner while loop of the letter branch
AlphaRunEnd(source_chars, n0) ==
    IF n0 < Len(source_chars) /\ is_ascii_alphabetic(source_chars[n0 + 1])
    THEN AlphaRunEnd(source_chars, n0 + 1)
    ELSE n0

\* SymbolToken with the catch-all arm turned into a token
SymbolTokenLenient(c) ==
    CASE c = "+" -> Ok(Token("Plus", <<"+">>))
      [] c = "*" -> Ok(Token("Times", <<"*">>))
      [] c = "-" -> Ok(Token("Minus", <<"-">>))
      [] c = "(" -> Ok(Token("Lparen", <<"(">>))
      [] c = ")" -> Ok(Token("Rparen", <<")">>))
      [] c = "=" -> Ok(Token("Assign", <<"=">>))
      [] OTHER -> Ok(Token("Name", <<c>>))

\* the match on a character that is no whitespace, digit or letter
SymbolToken(c) ==
    CASE c = "+" -> Ok(Token("Plus", <<"+">>))
      [] c = "*" -> Ok(Token("Times", <<"*">>))
      [] c = "-" -> Ok(Token("Minus", <<"-">>))
      [] c = "(" -> Ok(Token("Lparen", <<"(">>))
      [] c = ")" -> Ok(Token("Rparen", <<")">>))
      [] c = "=" -> Ok(Token("Assign", <<"=">>))
      [] OTHER -> Err(SyntaxError(<<"Couldn't parse ", c, " to a token">>))

RECURSIVE TokenizeFrom(_, _, _)
\* the outer while loop of tokenize, from cursor n0 with the tokens pushed so far
TokenizeFrom(source_chars, n0, toks) ==
    IF ~(n0 < Len(source_chars)) THEN Ok(toks)
    ELSE IF is_whitespace(source_chars[n0 + 1])
    THEN TokenizeFrom(source_chars, n0 + 1, toks)
    ELSE IF is_ascii_digit(source_chars[n0 + 1])
    THEN LET end == DigitRunEnd(source_chars, n0)
         IN TokenizeFrom(source_chars, end,
                Append(toks, Token("Num", SubSeq(source_chars, n0 + 1, end))))
    ELSE IF is_ascii_alphabetic(source_chars[n0 + 1])
    THEN LET end == AlphaRunEnd(source_chars, n0)
         IN TokenizeFrom(source_chars, end,
                Append(toks, Token("Name", SubSeq(source_chars, n0 + 1, end))))
    ELSE LET token == SymbolToken(source_chars[n0 + 1])
         IN IF token.ok
            THEN TokenizeFrom(source_chars, n0 + 1, Append(toks, token.v))
            ELSE token

tokenize(source) == TokenizeFrom(source, 0, <<>>)

(***************************************************************************)
(* Expression trees.                                                       *)
(***************************************************************************)
Number(v) == [kind |-> "Number", n |-> v]
Variable(name) == [kind |-> "Variable", name |-> name]
Assign(location, value) == [kind |-> "Assign", location |-> location, value |-> value]
Add(left, right) == [kind |-> "Add", left |-> left, right |-> right]
Minus(left, right) == [kind |-> "Minus", left |-> left, right |-> right]
Mul(left, right) == [kind |-> "Mul", left |-> left, right |-> right]

NoExpr == [kind |-> "None"]

(***************************************************************************)
(* str::parse::<i32> on the text of a Num token, which holds digits only.  *)
(***************************************************************************)
DigitValue(c) ==
    CASE c = "0" -> 0 [] c = "1" -> 1 [] c = "2" -> 2 [] c = "3" -> 3 [] c = "4" -> 4
      [] c = "5" -> 5 [] c = "6" -> 6 [] c = "7" -> 7 [] c = "8" -> 8 [] c = "9" -> 9

RECURSIVE ParseDigits(_, _, _)
ParseDigits(val, i, acc) ==
    IF i > Len(val) THEN Ok(acc)
    ELSE LET d == DigitValue(val[i])
         IN IF acc > (I32Max - d) \div 10
            THEN Err("PosOverflow")
            ELSE ParseDigits(val, i + 1, acc * 10 + d)

ParseI32(val) == ParseDigits(val, 1, 0)

(***************************************************************************)
(* Parser.  A panic is a third outcome beside Ok and Err.                  *)
(***************************************************************************)
Panic(msg) == [ok |-> FALSE, panic |-> msg]
IsPanic(r) == "panic" \in DOMAIN r

Parser(toks, cursor) == [tokens |-> toks, n |-> cursor]

\* Parser::accept without the cursor's advance
acceptStuck(p, token_type) ==
    IF p.n < Len(p.tokens) /\ p.tokens[p.n + 1].token_type = token_type
    THEN [accepted |-> TRUE, n |-> p.n]
    ELSE [accepted |-> FALSE, n |-> p.n]

\* Parser::accept: whether the token under the cursor has the type, and the
\* cursor afterwards
accept(p, token_type) ==
    IF p.n < Len(p.tokens) /\ p.tokens[p.n + 1].token_type = token_type
    THEN [accepted |-> TRUE, n |-> p.n + 1]
    ELSE [accepted |-> FALSE, n |-> p.n]

\* Parser::last: the token before the cursor.  With n = 0 the usize n - 1
\* panics where overflow is checked, and wraps to usize::MAX, an index outside
\* the vector, otherwise.
last(p, checks) ==
    IF p.n >= Len(p.tokens)
    THEN Err(SyntaxError(<<"Syntax error somewhere.">>))
    ELSE IF p.n = 0
    THEN IF checks THEN Panic("attempt to subtract with overflow")
         ELSE Panic("index out of bounds")
    ELSE Ok(p.tokens[p.n])

\* Parser::at_end
at_end(p) == p.n <= Len(p.tokens)

(***************************************************************************)
(* The recursive descent as a call stack.  A frame names its function and  *)
(* the point it resumes at when its callee returns; parse_expression also  *)
(* keeps its left operand and the operator it accepted.                    *)
(***************************************************************************)
Frame(fn, at) == [fn |-> fn, at |-> at, op |-> "none", left |-> NoExpr]

Top == stack[Len(stack)]
Pop == SubSeq(stack, 1, Len(stack) - 1)
P == Parser(tokens, n)

Running(fn, at) ==
    /\ pc = "parsing"
    /\ stack # <<>>
    /\ Top.fn = fn
    /\ Top.at = at

\* what the parser leaves alone
MainUnchanged == UNCHANGED <<overflow_checks, env, raw_calc, tokens, parsed, printed, lines>>

\* return r to the caller
Return(r) ==
    /\ stack' = Pop
    /\ ret' = r
    /\ UNCHANGED <<pc, panic>>

\* panic!: the process aborts where it stands
Abort(msg) ==
    /\ pc' = "aborted"
    /\ panic' = msg
    /\ UNCHANGED <<stack, ret>>

\* call fn from the frame on top, which resumes at `at`
Call(fn, at) ==
    /\ stack' = Append([stack EXCEPT ![Len(stack)].at = at], Frame(fn, "call"))
    /\ UNCHANGED <<pc, panic, ret>>

\* parse_term, Num branch: accept, then last()?.val.parse().expect(..)
ParseTermNum ==
    /\ Running("parse_term", "call")
    /\ LET a == accept(P, "Num")
           l == last(Parser(tokens, a.n), overflow_checks)
       IN /\ a.accepted
          /\ n' = a.n
          /\ IF IsPanic(l) THEN Abort(l.panic)
             ELSE IF ~l.ok THEN Return(l)
             ELSE IF ~ParseI32(l.v.val).ok
             THEN Abort("couldn't parse digit")
             ELSE Return(Ok(Number(ParseI32(l.v.val).v)))
    /\ MainUnchanged

\* parse_term, Name branch
ParseTermName ==
    /\ Running("parse_term", "call")
    /\ ~accept(P, "Num").accepted
    /\ LET a == accept(P, "Name")
           l == last(Parser(tokens, a.n), overflow_checks)
       IN /\ a.accepted
          /\ n' = a.n
          /\ IF IsPanic(l) THEN Abort(l.panic)
             ELSE IF ~l.ok THEN Return(l)
             ELSE Return(Ok(Variable(l.v.val)))
    /\ MainUnchanged

\* parse_term, Lparen branch up to the call of parse_expression
ParseTermLparen ==
    /\ Running("parse_term", "call")
    /\ ~accept(P, "Num").accepted
    /\ ~accept(P, "Name").accepted
    /\ LET a == accept(P, "Lparen")
       IN /\ a.accepted
          /\ n' = a.n
          /\ Call("parse_expression", "paren")
    /\ MainUnchanged

\* parse_term, Lparen branch after parse_expression returned
ParseTermRparen ==
    /\ Running("parse_term", "paren")
    /\ LET a == accept(P, "Rparen")
       IN IF ~ret.ok
          THEN Return(ret) /\ n' = n
          ELSE /\ n' = a.n
               /\ IF ~a.accepted
                  THEN Return(Err(SyntaxError(<<"( not closed by a ). Found ( ", ret.v, " ">>)))
                  ELSE Return(Ok(ret.v))
    /\ MainUnchanged

\* parse_term, no branch taken
ParseTermReject ==
    /\ Running("parse_term", "call")
    /\ ~accept(P, "Num").accepted
    /\ ~accept(P, "Name").accepted
    /\ ~accept(P, "Lparen").accepted
    /\ Return(Err(SyntaxError(<<"Cannot process token">>)))
    /\ n' = n
    /\ MainUnchanged

\* parse_expression: the call of parse_term for the left operand
ParseExpressionCall ==
    /\ Running("parse_expression", "call")
    /\ Call("parse_term", "left")
    /\ n' = n
    /\ MainUnchanged

\* parse_expression: the left operand failed
ParseExpressionLeftErr ==
    /\ Running("parse_expression", "left")
    /\ ~ret.ok
    /\ Return(ret)
    /\ n' = n
    /\ MainUnchanged

BinaryToken == [Add |-> "Plus", Minus |-> "Minus", Mul |-> "Times"]

\* the first of the operator branches of parse_expression that accepts
AcceptedOperator ==
    IF accept(P, "Plus").accepted THEN "Add"
    ELSE IF accept(P, "Minus").accepted THEN "Minus"
    ELSE IF accept(P, "Times").accepted THEN "Mul"
    ELSE IF accept(P, "Assign").accepted THEN "Assign"
    ELSE "none"

\* parse_expression: Plus, Minus or Times accepted, parse_term called for the
\* right operand
ParseExpressionBinary ==
    /\ Running("parse_expression", "left")
    /\ ret.ok
    /\ AcceptedOperator \in DOMAIN BinaryToken
    /\ n' = accept(P, BinaryToken[AcceptedOperator]).n
    /\ stack' = Append([stack EXCEPT ![Len(stack)] =
                            [fn |-> "parse_expression", at |-> "right",
                             op |-> AcceptedOperator, left |-> ret.v]],
                       Frame("parse_term", "call"))
    /\ UNCHANGED <<pc, panic, ret>>
    /\ MainUnchanged

\* parse_expression: Assign accepted, parse_expression called for the value
ParseExpressionAssign ==
    /\ Running("parse_expression", "left")
    /\ ret.ok
    /\ AcceptedOperator = "Assign"
    /\ n' = accept(P, "Assign").n
    /\ stack' = Append([stack EXCEPT ![Len(stack)] =
                            [fn |-> "parse_expression", at |-> "right",
                             op |-> "Assign", left |-> ret.v]],
                       Frame("parse_expression", "call"))
    /\ UNCHANGED <<pc, panic, ret>>
    /\ MainUnchanged

\* parse_expression: no operator follows, the left term is the expression
ParseExpressionTerm ==
    /\ Running("parse_expression", "left")
    /\ ret.ok
    /\ AcceptedOperator = "none"
    /\ Return(Ok(ret.v))
    /\ n' = n
    /\ MainUnchanged

Node(op, left, right) ==
    CASE op = "Add" -> Add(left, right)
      [] op = "Minus" -> Minus(left, right)
      [] op = "Mul" -> Mul(left, right)
      [] op = "Assign" -> Assign(left, right)

\* parse_expression: the right operand or the assigned value returned
ParseExpressionRight ==
    /\ Running("parse_expression", "right")
    /\ IF ~ret.ok THEN Return(ret)
       ELSE Return(Ok(Node(Top.op, Top.left, ret.v)))
    /\ n' = n
    /\ MainUnchanged

\* parse: the call of parse_expression
ParseCall ==
    /\ Running("parse", "call")
    /\ Call("parse_expression", "end")
    /\ n' = n
    /\ MainUnchanged

\* parse: parse_expression returned; the at_end check
ParseEnd ==
    /\ Running("parse", "end")
    /\ IF ~ret.ok THEN Return(ret)
       ELSE IF ~at_end(P)
       THEN LET l == last(P, overflow_checks)
            IN IF IsPanic(l) THEN Abort(l.panic)
               ELSE IF ~l.ok THEN Return(l)
               ELSE Return(Err(SyntaxError(
                        <<"Unprocessed characters remain. Last unprocessed: ", l.v>>)))
       ELSE Return(Ok(ret.v))
    /\ n' = n
    /\ MainUnchanged

ParserStep ==
    \/ ParseCall
    \/ ParseExpressionCall
    \/ ParseTermNum
    \/ ParseTermName
    \/ ParseTermLparen
    \/ ParseTermRparen
    \/ ParseTermReject
    \/ ParseExpressionLeftErr
    \/ ParseExpressionBinary
    \/ ParseExpressionAssign
    \/ ParseExpressionTerm
    \/ ParseExpressionRight
    \/ ParseEnd

(***************************************************************************)
(* Environment and evaluator.                                              *)
(***************************************************************************)
\* Environment::new
EnvironmentNew == [name \in {} |-> 0]

\* Environment::assign that keeps a binding the name already has
assignKeep(vars_, name, val) ==
    [k \in DOMAIN vars_ \cup {name} |-> IF k \in DOMAIN vars_ THEN vars_[k] ELSE val]

\* Environment::assign: HashMap::insert, which overwrites
assign(vars_, name, val) ==
    [k \in DOMAIN vars_ \cup {name} |-> IF k = name THEN val ELSE vars_[k]]

\* Environment::lookup: unwrap of HashMap::get
lookup(vars_, name) ==
    IF name \in DOMAIN vars_
    THEN Ok(vars_[name])
    ELSE Panic("called Option::unwrap() on a None value")

\* what evaluate hands back: the result (Ok, Err or a panic) and the
\* environment as the call leaves it
Outcome(r, vars_) == [r |-> r, env |-> vars_]

\* left op right on i32: a panic where overflow is checked, wrapping otherwise
Arith(kind, a, b, checks) ==
    CASE kind = "Add" ->
           IF checks /\ AddOverflows(a, b) THEN Panic("attempt to add with overflow")
           ELSE Ok(WrappingAdd(a, b))
      [] kind = "Minus" ->
           IF checks /\ SubOverflows(a, b) THEN Panic("attempt to subtract with overflow")
           ELSE Ok(WrappingSub(a, b))
      [] kind = "Mul" ->
           IF checks /\ MulOverflows(a, b) THEN Panic("attempt to multiply with overflow")
           ELSE Ok(WrappingMul(a, b))

RECURSIVE evaluate(_, _, _)

\* the Variable arm with a lookup that inserts 0 for a name it does not find
EvalVariableDefaulting(expr, vars_) ==
    IF expr.name \in DOMAIN vars_
    THEN Outcome(Ok(vars_[expr.name]), vars_)
    ELSE Outcome(Ok(0), assign(vars_, expr.name, 0))

\* evaluate, the Variable arm
EvalVariable(expr, vars_) == Outcome(lookup(vars_, expr.name), vars_)

\* the Assign arm with the value evaluated before the target is looked at
EvalAssignValueFirst(expr, vars_, checks) ==
    LET eval == evaluate(expr.value, vars_, checks)
    IN IF ~eval.r.ok THEN eval
       ELSE IF expr.location.kind = "Variable"
       THEN LET stored == assign(eval.env, expr.location.name, eval.r.v)
            IN Outcome(lookup(stored, expr.location.name), stored)
       ELSE Outcome(Err(SyntaxError(<<expr.location, expr.value>>)), eval.env)

\* evaluate, the Assign arm: the match on the location, and under a Variable
\* the value, the assign and the lookup
EvalAssign(expr, vars_, checks) ==
    IF expr.location.kind = "Variable"
    THEN LET eval == evaluate(expr.value, vars_, checks)
         IN IF ~eval.r.ok THEN eval
            ELSE LET stored == assign(eval.env, expr.location.name, eval.r.v)
                 IN Outcome(lookup(stored, expr.location.name), stored)
    ELSE Outcome(Err(SyntaxError(<<expr.location, expr.value>>)), vars_)

\* the Add, Minus and Mul arms working on a copy of the environment that is
\* written back only when both operands evaluated
EvalBinaryRollback(expr, vars_, checks) ==
    LET l == evaluate(expr.left, vars_, checks)
    IN IF ~l.r.ok THEN Outcome(l.r, vars_)
       ELSE LET r == evaluate(expr.right, l.env, checks)
            IN IF ~r.r.ok THEN Outcome(r.r, vars_)
               ELSE Outcome(Arith(expr.kind, l.r.v, r.r.v, checks), r.env)

\* evaluate, the Add, Minus and Mul arms: left?, then right?, then the operator
EvalBinary(expr, vars_, checks) ==
    LET l == evaluate(expr.left, vars_, checks)
    IN IF ~l.r.ok THEN l
       ELSE LET r == evaluate(expr.right, l.env, checks)
            IN IF ~r.r.ok THEN r
               ELSE Outcome(Arith(expr.kind, l.r.v, r.r.v, checks), r.env)

evaluate(expr, vars_, checks) ==
    CASE expr.kind = "Number" -> Outcome(Ok(expr.n), vars_)
      [] expr.kind = "Variable" -> EvalVariable(expr, vars_)
      [] expr.kind = "Assign" -> EvalAssign(expr, vars_, checks)
      [] expr.kind \in {"Add", "Minus", "Mul"} -> EvalBinary(expr, vars_, checks)

(***************************************************************************)
(* main.                                                                   *)
(***************************************************************************)
PrintedNothing == [kind |-> "None"]
PrintedError(e) == [kind |-> "Error", e |-> e]
PrintedValue(out) == [kind |-> "Value", out |-> out]

\* raw_calc.trim().is_empty()
TrimIsEmpty(line) == \A i \in 1..Len(line) : is_whitespace(line[i])

Init ==
    /\ overflow_checks \in BOOLEAN
    /\ env = EnvironmentNew
    /\ pc = "prompt"
    /\ raw_calc = <<>>
    /\ tokens = <<>>
    /\ n = 0
    /\ stack = <<>>
    /\ ret = Ok(NoExpr)
    /\ parsed = NoExpr
    /\ printed = PrintedNothing
    /\ panic = "none"
    /\ lines = 0

\* the panic of println! when stdout cannot be written
StdoutPanic == "failed printing to stdout"

\* the process aborts on a write to stdout that failed
StdoutFails ==
    /\ pc' = "aborted"
    /\ panic' = StdoutPanic

\* println!(out) for the line's error or value, then the next iteration; or
\* the panic of println!
Println(out) ==
    \/ /\ printed' = out
       /\ pc' = "prompt"
       /\ UNCHANGED panic
    \/ /\ StdoutFails
       /\ UNCHANGED printed

\* the prompt: flush() returned Err and unwrap panics
PromptFail ==
    /\ pc = "prompt"
    /\ pc' = "aborted"
    /\ panic' = "called Result::unwrap() on an Err value"
    /\ UNCHANGED <<overflow_checks, env, raw_calc, tokens, n, stack, ret, parsed,
                   printed, lines>>

\* read_line returned Err (the bytes read are no UTF-8) and expect panics
ReadLineFail ==
    /\ pc = "prompt"
    /\ pc' = "aborted"
    /\ panic' = "Failed to read line"
    /\ UNCHANGED <<overflow_checks, env, raw_calc, tokens, n, stack, ret, parsed,
                   printed, lines>>

\* the prompt written and read_line returning Ok, for a line of the set Input
Read(line) ==
    /\ pc = "prompt"
    /\ lines < MaxLines
    /\ raw_calc' = line
    /\ lines' = lines + 1

\* an empty line: break
ReadEmpty(Input) ==
    \E line \in Input :
        /\ Read(line)
        /\ TrimIsEmpty(line)
        /\ pc' = "exited"
        /\ UNCHANGED <<overflow_checks, env, tokens, n, stack, ret, parsed, printed, panic>>

\* tokenize returned an error: print it, continue
ReadLexError(Input) ==
    \E line \in Input :
        /\ Read(line)
        /\ ~TrimIsEmpty(line)
        /\ ~tokenize(line).ok
        /\ Println(PrintedError(tokenize(line).e))
        /\ UNCHANGED <<overflow_checks, env, tokens, n, stack, ret, parsed>>

\* tokenize returned the tokens: they are printed, then a Parser over them,
\* cursor 0, and the call of parse
ReadTokens(Input) ==
    \E line \in Input :
        /\ Read(line)
        /\ ~TrimIsEmpty(line)
        /\ tokenize(line).ok
        /\ \/ /\ tokens' = tokenize(line).v
              /\ n' = 0
              /\ stack' = <<Frame("parse", "call")>>
              /\ pc' = "parsing"
              /\ UNCHANGED panic
           \/ /\ StdoutFails
              /\ UNCHANGED <<tokens, n, stack>>
        /\ UNCHANGED <<overflow_checks, env, ret, parsed, printed>>

\* parse returned an error: print it, continue
MainParseError ==
    /\ pc = "parsing"
    /\ stack = <<>>
    /\ ~ret.ok
    /\ Println(PrintedError(ret.e))
    /\ UNCHANGED <<overflow_checks, env, raw_calc, tokens, n, stack, ret, parsed, lines>>

\* the match on evaluate(&parsed, &mut env) and the println! of either arm
Evaluated(expr) ==
    LET eval == evaluate(expr, env, overflow_checks)
    IN /\ parsed' = expr
       /\ env' = eval.env
       /\ IF IsPanic(eval.r)
          THEN /\ pc' = "aborted"
               /\ panic' = eval.r.panic
               /\ UNCHANGED printed
          ELSE Println(IF eval.r.ok THEN PrintedValue(eval.r.v)
                       ELSE PrintedError(eval.r.e))

\* parse returned an expression: print it, evaluate it, print the value or
\* the error
MainEvaluate ==
    /\ pc = "parsing"
    /\ stack = <<>>
    /\ ret.ok
    /\ \/ Evaluated(ret.v)
       \/ /\ StdoutFails
          /\ UNCHANGED <<env, parsed, printed>>
    /\ UNCHANGED <<overflow_checks, raw_calc, tokens, n, stack, ret, lines>>

(***************************************************************************)
(* The whole program, over a fixed set of lines.                           *)
(***************************************************************************)
Lines == {
    <<>>,
    <<" ">>,
    <<"1", " ", "+", " ", "2">>,
    <<"(", "1", " ", "+", " ", "2", ")", " ", "*", " ", "3">>,
    <<"(", "1", ")", " ", "+", " ", "(", "2", ")">>,
    <<"(", "1", " ", "+", " ", "2", ")", " ", "*", " ", "(", "3", ")">>,
    <<"1", " ", "+", " ", "2", " ", "+", " ", "3">>,
    <<"2", " ", "*", " ", "3", " ", "+", " ", "4">>,
    <<"x", " ", "=", " ", "5">>,
    <<"x", " ", "=", " ", "(", "5", ")">>,
    <<"x", " ", "=", " ", "(", "3", ")">>,
    <<"x">>,
    <<"(", "x", ")">>,
    <<"(", "y", ")">>,
    <<"y", " ", "=", " ", "(", "x", ")">>,
    <<"a", " ", "=", " ", "b", " ", "=", " ", "(", "3", ")">>,
    <<"(", "x", " ", "=", " ", "1", ")", " ", "+", " ", "(", "2", " ", "=", " ", "3", ")">>,
    <<"(", "y", " ", "=", " ", "2", ")", " ", "-", " ", "(", "1", " ", "=", " ", "(", "x", " ", "=", " ", "7", ")", ")">>,
    <<"1", "2", " ", "+", " ", "f", "o", "o">>,
    <<"1", " ", "@", " ", "2">>,
    <<"(", "9", "9", "9", "9", "9", "9", "9", "9", "9", "9", "9", ")">>,
    <<"9", "9", "9", "9", "9", "9", "9", "9", "9", "9", "9", " ", "+", " ", "1">>,
    <<"(", "2", "1", "4", "7", "4", "8", "3", "6", "4", "7", ")", " ", "+", " ", "(", "1", ")">>,
    <<"(", "2", "1", "4", "7", "4", "8", "3", "6", "4", "7", ")", " ", "*", " ", "(", "x", ")">>,
    <<"(", "0", " ", "-", " ", "2", "1", "4", "7", "4", "8", "3", "6", "4", "7", ")", " ", "-", " ", "(", "2", ")">>,
    <<"(", "1", " ", "+", " ", "2">>,
    <<"(", "(", "1", ")", " ", "+", " ", "(", "2", ")">>,
    <<")">>,
    <<"(", "x", " ", "=", " ", "1", ")", " ", "*", " ", "(", "(", "y", " ", "=", " ", "2", ")", " ", "+", " ", "(", "3", " ", "=", " ", "4", ")", ")">>,
    <<"x", " ", "=", " ", "(", "x", ")", " ", "+", " ", "(", "1", ")">>,
    <<"(", "x", " ", "=", " ", "2", ")", " ", "-", " ", "(", "y", ")">>,
    <<"\f">>,
    <<"(", "1", ")", " ", "\f", "+", "U+00A0", "(", "2", ")">>
}

Next ==
    \/ PromptFail
    \/ ReadLineFail
    \/ ReadEmpty(Lines)
    \/ ReadLexError(Lines)
    \/ ReadTokens(Lines)
    \/ ParserStep
    \/ MainParseError
    \/ MainEvaluate

Spec == Init /\ [][Next]_vars

(***************************************************************************)
(* The lexer alone: main reads one line, any line of at most MaxLen        *)
(* characters over LexChars.                                               *)
(***************************************************************************)
LexChars == {" ", "\f", "U+00A0", "1", "a", "+", "-", "*", "(", ")", "=", "@", "_"}

Sources == UNION {[1..k -> LexChars] : k \in 0..MaxLen}

LexPromptFail == lines = 0 /\ PromptFail
LexReadLineFail == lines = 0 /\ ReadLineFail
LexReadEmpty == lines = 0 /\ ReadEmpty(Sources)
LexReadLexError == lines = 0 /\ ReadLexError(Sources)
LexReadTokens == lines = 0 /\ ReadTokens(Sources)

LexNext ==
    \/ LexPromptFail
    \/ LexReadLineFail
    \/ LexReadEmpty
    \/ LexReadLexError
    \/ LexReadTokens

\* the lexer does no arithmetic: one build profile stands for both
LexInit == Init /\ ~overflow_checks

SpecLex == LexInit /\ [][LexNext]_vars

Symbols == {"+", "-", "*", "(", ")", "="}

InAlphabet(c) ==
    c \in Whitespace \cup AsciiDigit \cup AsciiAlphabetic \cup Symbols

\* the characters of the line that tokenize has no branch for, by position
Offending(line) == {i \in 1..Len(line) : ~InAlphabet(line[i])}

FirstOffending(line) ==
    line[CHOOSE i \in Offending(line) : \A j \in Offending(line) : i <= j]

\* C8: a line that is not blank is tokenized into a token sequence exactly
\* when all its characters are whitespace, ASCII digits, ASCII letters or one
\* of + - * ( ) =; otherwise main gets a lex error that names the first
\* character outside that alphabet and no Parser is built over any tokens.
\* (What main prints and where it goes on is stated for a stdout that can be
\* written.)
C8_TokenizeTotalAtomic ==
    (lines = 1 /\ ~TrimIsEmpty(raw_calc)) =>
        IF Offending(raw_calc) = {}
        THEN /\ printed = PrintedNothing
             /\ panic = "none" => (pc = "parsing" /\ tokens = tokenize(raw_calc).v)
        ELSE /\ tokens = <<>>
             /\ stack = <<>>
             /\ panic = "none" =>
                   /\ pc = "prompt"
                   /\ printed = PrintedError(SyntaxError(
                          <<"Couldn't parse ", FirstOffending(raw_calc), " to a token">>))

\* a lex error on a line whose first characters had already been scanned
\* into tokens
C8_Witness ==
    /\ lines = 1
    /\ printed.kind = "Error"
    /\ Len(raw_calc) >= 3
    /\ raw_calc[1] = "1"
    /\ raw_calc[2] = "+"
    /\ raw_calc[3] = "@"

(***************************************************************************)
(* The parser alone: main reads one line, any line of at most MaxTokens    *)
(* words separated by single spaces, and parse runs on its tokens.         *)
(***************************************************************************)
\* of the three binary operators, which parse_expression handles alike, the
\* first and the last it tries
Words == {<<"1">>, <<"9", "9", "9", "9", "9", "9", "9", "9", "9", "9", "9">>, <<"x">>,
          <<"+">>, <<"*">>, <<"(">>, <<")">>, <<"=">>}

RECURSIVE Join(_)
Join(ws) ==
    IF Len(ws) = 0 THEN <<>>
    ELSE IF Len(ws) = 1 THEN ws[1]
    ELSE ws[1] \o <<" ">> \o Join(Tail(ws))

ParseLines == {Join(ws) : ws \in UNION {[1..k -> Words] : k \in 1..MaxTokens}}

ParsePromptFail == lines = 0 /\ PromptFail
ParseReadLineFail == lines = 0 /\ ReadLineFail
ParseRead == lines = 0 /\ ReadTokens(ParseLines)

ParseNext ==
    \/ ParsePromptFail
    \/ ParseReadLineFail
    \/ ParseRead
    \/ ParserStep

\* both build profiles: the n - 1 of Parser::last is checked in one and wraps
\* in the other
ParseInit == Init

\* the program is one thread that runs the parser to its return
SpecParse == ParseInit /\ [][ParseNext]_vars /\ WF_vars(ParserStep)

\* parse has returned to main
ParseReturned == pc = "parsing" /\ stack = <<>>

ExpressionFrames == {i \in DOMAIN stack : stack[i].fn = "parse_expression"}

\* C10: while parse runs the cursor stays within 0..len(tokens), Parser::last
\* never reads before the first token in either build (no n - 1 at n = 0,
\* checked or wrapped), and the calls of parse_expression
\* that are open number at most one more than the tokens consumed, each
\* nested call having been made after a further token was accepted; no step
\* of the parser moves the cursor back; and parse, once called, returns (or
\* the process has aborted on a number literal).
C10_CursorSafety ==
    /\ [](/\ n \in 0..Len(tokens)
          /\ panic \notin {"index out of bounds", "attempt to subtract with overflow"}
          /\ Cardinality(ExpressionFrames) <= n + 1
          /\ Len(stack) <= 2 * n + 3)
    /\ [][pc = "parsing" => n' >= n]_vars
    /\ (pc = "parsing") ~> (ParseReturned \/ pc = "aborted")

\* parse returned an assignment, parsed through a nested call of
\* parse_expression, with the cursor after its three tokens
C10_Witness ==
    /\ ParseReturned
    /\ ret.ok
    /\ ret.v.kind = "Assign"
    /\ n = 3
    /\ Len(tokens) = 4

\* C2: once parse has returned with tokens left after the cursor, what it
\* returned is an error.
C2_TrailingTokensRejected ==
    (ParseReturned /\ n < Len(tokens)) => ~ret.ok

(***************************************************************************)
(* The evaluator alone: from an environment over Names, evaluate runs on   *)
(* any tree of at most MaxOps operator nodes, and then again on the same   *)
(* tree or on a variable.                                                  *)
(***************************************************************************)
Names == {<<"x">>, <<"y">>}
EnvValues == {1, I32Max}
Leaves == {Number(1)} \cup {Variable(name) : name \in Names}
Operators == {"Assign", "Add", "Minus", "Mul"}

RECURSIVE TreesWithOps(_)
TreesWithOps(k) ==
    IF k = 0 THEN Leaves
    ELSE UNION {{Node(op, l, r) : op \in Operators, l \in TreesWithOps(i),
                                  r \in TreesWithOps(k - 1 - i)} : i \in 0..(k - 1)}

Exprs == UNION {TreesWithOps(k) : k \in 0..MaxOps}

Envs == UNION {[S -> EnvValues] : S \in SUBSET Names}

EvalInit ==
    /\ overflow_checks \in BOOLEAN
    /\ env \in Envs
    /\ pc = "prompt"
    /\ raw_calc = <<>>
    /\ tokens = <<>>
    /\ n = 0
    /\ stack = <<>>
    /\ ret = Ok(NoExpr)
    /\ parsed = NoExpr
    /\ printed = PrintedNothing
    /\ panic = "none"
    /\ lines = 0

EvalUnchanged == UNCHANGED <<overflow_checks, raw_calc, tokens, n, stack, ret>>

EvalExpr ==
    /\ pc = "prompt"
    /\ lines = 0
    /\ \E e \in Exprs : Evaluated(e)
    /\ lines' = 1
    /\ EvalUnchanged

EvalAgain ==
    /\ pc = "prompt"
    /\ lines >= 1
    /\ lines < MaxLines
    /\ Evaluated(parsed)
    /\ lines' = lines + 1
    /\ EvalUnchanged

EvalLookup ==
    /\ pc = "prompt"
    /\ lines >= 1
    /\ lines < MaxLines
    /\ \E name \in Names : Evaluated(Variable(name))
    /\ lines' = lines + 1
    /\ EvalUnchanged

EvalNext ==
    \/ EvalExpr
    \/ EvalAgain
    \/ EvalLookup

SpecEval == EvalInit /\ [][EvalNext]_vars

RECURSIVE AssignsTo(_, _)
\* the tree holds an Assign node whose location is the variable
AssignsTo(e, name) ==
    CASE e.kind \in {"Number", "Variable"} -> FALSE
      [] e.kind = "Assign" ->
           \/ e.location = Variable(name)
           \/ AssignsTo(e.location, name)
           \/ AssignsTo(e.value, name)
      [] OTHER -> AssignsTo(e.left, name) \/ AssignsTo(e.right, name)

RECURSIVE HasAssign(_)
HasAssign(e) ==
    CASE e.kind \in {"Number", "Variable"} -> FALSE
      [] e.kind = "Assign" -> TRUE
      [] OTHER -> HasAssign(e.left) \/ HasAssign(e.right)

\* a step in which evaluate ran
EvaluateStep == lines' = lines + 1

\* the step leaves main at the prompt with out printed, or stdout could not
\* be written
PrintedNext(out) ==
    \/ pc' = "prompt" /\ printed' = out
    \/ pc' = "aborted" /\ panic' = StdoutPanic

\* C4: evaluating Assign(Variable(x), v) where v evaluates to k prints k and
\* leaves x bound to k; evaluating Variable(x) while x is bound prints its
\* value and changes nothing, so a lookup right after the assignment prints
\* k again; and a tree with no assignment to x leaves the binding of x alone.
\* (Printing is stated for a stdout that can be written.)
C4_AssignBindsAndReturns ==
    [][EvaluateStep =>
        /\ (/\ parsed'.kind = "Assign"
            /\ parsed'.location.kind = "Variable"
            /\ evaluate(parsed'.value, env, overflow_checks).r.ok)
           => LET k == evaluate(parsed'.value, env, overflow_checks).r.v
                  x == parsed'.location.name
              IN /\ PrintedNext(PrintedValue(k))
                 /\ x \in DOMAIN env'
                 /\ env'[x] = k
        /\ (parsed'.kind = "Variable" /\ parsed'.name \in DOMAIN env)
           => /\ PrintedNext(PrintedValue(env[parsed'.name]))
              /\ env' = env
        /\ (/\ parsed.kind = "Assign"
            /\ parsed.location.kind = "Variable"
            /\ printed.kind = "Value"
            /\ parsed' = parsed.location)
           => printed' = printed
        /\ \A x \in DOMAIN env :
              ~AssignsTo(parsed', x) => (x \in DOMAIN env' /\ env'[x] = env[x])
    ]_vars

\* x was bound to I32Max or 1, the assignment x = 1 + 1 overwrote it, and
\* the lookup that followed printed 2
C4_Witness ==
    /\ lines = 2
    /\ parsed = Variable(<<"x">>)
    /\ printed = PrintedValue(2)
    /\ env[<<"x">>] = 2

\* C5: evaluating a tree with no Assign node leaves the environment as it
\* was, and evaluating it a second time right away prints what the first
\* evaluation printed.
C5_ReadOnlyWithoutAssign ==
    [][(EvaluateStep /\ ~HasAssign(parsed')) =>
        /\ env' = env
        /\ (lines >= 1 /\ parsed' = parsed /\ pc' = "prompt") => printed' = printed
    ]_vars

\* the same addition over a bound variable evaluated twice
C5_Witness ==
    /\ lines = 2
    /\ parsed = Add(Variable(<<"x">>), Number(1))
    /\ printed = PrintedValue(2)
    /\ env = [name \in {<<"x">>} |-> 1]

\* C9 as first stated: when the target of an Assign is no Variable, the
\* value has been evaluated all the same, so the environment is the one the
\* value's evaluation leaves.
C9_ValueEvaluatedFirst ==
    [][(/\ EvaluateStep
        /\ parsed'.kind = "Assign"
        /\ parsed'.location.kind # "Variable"
        /\ evaluate(parsed'.value, env, overflow_checks).r.ok)
       => env' = evaluate(parsed'.value, env, overflow_checks).env
    ]_vars

\* C9: when the target of an Assign is no Variable, evaluate returns the
\* malformed-assignment error without evaluating the value: the environment
\* is unchanged, whatever assignments the value holds.
C9_TargetCheckedFirst ==
    [][(/\ EvaluateStep
        /\ parsed'.kind = "Assign"
        /\ parsed'.location.kind # "Variable")
       => /\ env' = env
          /\ PrintedNext(PrintedError(SyntaxError(<<parsed'.location, parsed'.value>>)))
    ]_vars

\* the malformed assignment 1 = (x = 1) returned its error and x is unbound
C9_Witness ==
    /\ lines = 1
    /\ parsed = Assign(Number(1), Assign(Variable(<<"x">>), Number(1)))
    /\ printed.kind = "Error"
    /\ <<"x">> \notin DOMAIN env

(***************************************************************************)
(* Claims about the whole program, under Spec.                             *)
(***************************************************************************)
\* main is back at the prompt after the line
LineDone(line) == lines >= 1 /\ pc = "prompt" /\ raw_calc = line

NumberTokens(toks) ==
    /\ Len(toks) = 3
    /\ toks[1].token_type = "Num"
    /\ toks[2].token_type \in {"Plus", "Minus", "Times"}
    /\ toks[3].token_type = "Num"
    /\ ParseI32(toks[1].val).ok
    /\ ParseI32(toks[3].val).ok

OperatorOf(token_type) ==
    CASE token_type = "Plus" -> "Add"
      [] token_type = "Minus" -> "Minus"
      [] token_type = "Times" -> "Mul"

\* C1: parse of the tokens of `number op number` returns the operator's node
\* over the two literals, and the lines "1 + 2" and "(1 + 2) * 3" print 3
\* and 9.
C1_BinaryLineEvaluates ==
    /\ (ParseReturned /\ NumberTokens(tokens))
       => ret = Ok(Node(OperatorOf(tokens[2].token_type),
                        Number(ParseI32(tokens[1].val).v),
                        Number(ParseI32(tokens[3].val).v)))
    /\ LineDone(<<"1", " ", "+", " ", "2">>) => printed = PrintedValue(3)
    /\ LineDone(<<"(", "1", " ", "+", " ", "2", ")", " ", "*", " ", "3">>)
       => printed = PrintedValue(9)

\* C3: evaluating Variable(name) for a name with no binding does not abort
\* the process: main prints an error and is back at the prompt.
C3_UnboundVariableReported ==
    (parsed.kind = "Variable" /\ parsed.name \notin DOMAIN env)
    => (pc # "aborted" /\ printed.kind = "Error")

\* C7: the process aborts on nothing but the lookup of an unbound variable.
C7_OnlyUnboundLookupAborts ==
    pc = "aborted" => panic = "called Option::unwrap() on a None value"

\* C6: when the left operand of a binary node is an assignment x = literal
\* and the evaluation of the right operand fails, x is bound to the literal
\* when main prints the error, unless the right operand assigned x itself
\* before it failed; no step removes a name from the environment, and the
\* environment changes only when main evaluates a tree that holds an
\* assignment, so the binding is there for the lines read afterwards.
C6_NoRollback ==
    /\ [](/\ parsed.kind \in {"Add", "Minus", "Mul"}
          /\ parsed.left.kind = "Assign"
          /\ parsed.left.location.kind = "Variable"
          /\ parsed.left.value.kind = "Number"
          /\ ~AssignsTo(parsed.right, parsed.left.location.name)
          => /\ parsed.left.location.name \in DOMAIN env
             /\ env[parsed.left.location.name] = parsed.left.value.n)
    /\ [][DOMAIN env \subseteq DOMAIN env']_vars
    /\ [][env' # env => (ParseReturned /\ HasAssign(parsed'))]_vars

\* (x = 1) + (2 = 3) failed on its right operand, and the line (x) read
\* next printed the 1 its left operand had bound
C6_Witness ==
    /\ LineDone(<<"(", "x", ")">>)
    /\ lines >= 2
    /\ parsed = Variable(<<"x">>)
    /\ printed = PrintedValue(1)

====
